---- MODULE Spec2Model ----
(***************************************************************************)
(* HomeAssistant support backend: the three data-access modules            *)
(* (dao-lights, dao-switches, dao-temperatures) over their SQLite tables,  *)
(* and the express server (sessions and resource routes) that calls them.  *)
(***************************************************************************)
EXTENDS Integers, Sequences, FiniteSets, TLC

\* ------------------------------------------------------------------------
\* Bounds of the model
\* ------------------------------------------------------------------------
MaxId == 2          \* row identifiers are 1..MaxId: a table holds MaxId rows

Users == {1, 2}     \* owner identifiers; 1 is the identity the routes hardcode
Dates == {1, 2}     \* timestamps, ordered as their ISO-8601 strings are
Ids == 1 .. MaxId
NoId == 0           \* a parameter that equals no stored id
NoUser == 0         \* a parameter that equals no stored owner (undefined / NULL)
Families == {"lights", "switches", "temperatures"}

\* ------------------------------------------------------------------------
\* JavaScript values that reach the server in a path or a JSON body
\* ------------------------------------------------------------------------
Num(n) == [t |-> "number", v |-> n]        \* the number n
Flt(n) == [t |-> "number.5", v |-> n]      \* the number n + 0.5
Str(n) == [t |-> "numstr", v |-> n]        \* the decimal string of n
Bool(b) == [t |-> "boolean", v |-> IF b THEN 1 ELSE 0]
Junk == [t |-> "text", v |-> 0]            \* a string that is no number, "abc"
Undef == [t |-> "undefined", v |-> 0]      \* the field is absent

\* ------------------------------------------------------------------------
\* Rows and outcomes of a DAO promise
\* ------------------------------------------------------------------------
Row(id, date, value, user) == [id |-> id, date |-> date, value |-> value, user |-> user]
NoRow == Row(NoId, 0, Undef, NoUser)

\* resolve(row) | resolve({error: ...}) | resolve(rows) | resolve(null) | reject(err)
Found(r) == [kind |-> "row", row |-> r, rows |-> {}]
NotFound == [kind |-> "error", row |-> NoRow, rows |-> {}]
Listed(rs) == [kind |-> "rows", row |-> NoRow, rows |-> rs]
Done == [kind |-> "null", row |-> NoRow, rows |-> {}]
Rejected == [kind |-> "rejected", row |-> NoRow, rows |-> {}]
NoOutcome == [kind |-> "none", row |-> NoRow, rows |-> {}]

\* where a statement of the call fails in the database: nowhere, in its
\* first statement (the write, or the only read), or in the read-back
Fails == {"none", "first", "readback"}

\* ------------------------------------------------------------------------
\* The SQL statements, as SQLite runs them on a table (a set of rows)
\* ------------------------------------------------------------------------
\* SELECT * FROM t WHERE user=?
SelectByUser(t, user) == {r \in t : r.user = user}

\* SELECT * FROM t WHERE id=? and user=?
SelectByIdUser(t, id, user) == {r \in t : r.id = id /\ r.user = user}

\* UPDATE t SET value = ?, date = ? WHERE id = ? and user = ?
UpdateByIdUser(t, value, date, id, user) ==
    {IF r.id = id /\ r.user = user
        THEN [r EXCEPT !.value = value, !.date = date]
        ELSE r : r \in t}

\* DELETE FROM t WHERE id = ? and user = ?
DeleteByIdUser(t, id, user) == {r \in t : ~(r.id = id /\ r.user = user)}

\* this.lastID of an INSERT: the id column is filled in by the database with
\* an identifier that no row of the table has
lastID(t) == {i \in Ids : \A r \in t : r.id # i}

\* INSERT INTO t (value, date, user) VALUES(?, ?, ?), given its this.lastID
InsertRow(t, id, s) == t \cup {Row(id, s.date, s.value, s.user)}

\* db.get hands the callback the first row of the result, or undefined
FirstRow(S) == IF S = {} THEN NotFound ELSE Found(CHOOSE r \in S : TRUE)

\* ORDER BY date DESC LIMIT 1: the rows no other row of the result is newer than
NewestRows(S) == {r \in S : \A q \in S : q.date <= r.date}

\* the read-back a create or update ends with fails, or does not
ReadBack(fail) == IF fail = "readback" THEN "first" ELSE "none"

\* ------------------------------------------------------------------------
\* dao-lights.js
\* ------------------------------------------------------------------------
listLights(t, user, fail) ==
    IF fail # "none" THEN Rejected ELSE Listed(SelectByUser(t, user))

\* SELECT * FROM lights WHERE id=?  (the owner check left out)
getLight_AnyOwner(t, user, id, fail) ==
    IF fail # "none" THEN Rejected ELSE FirstRow({r \in t : r.id = id})

getLight(t, user, id, fail) ==
    IF fail # "none" THEN Rejected ELSE FirstRow(SelectByIdUser(t, id, user))

\* INSERT INTO lights (value, date) VALUES(?, ?)  (the user column left out)
createLight_NoOwner(t, s, id, fail) ==
    IF fail = "first" THEN [table |-> t, out |-> Rejected]
    ELSE LET t2 == t \cup {Row(id, s.date, s.value, NoUser)}
         IN  [table |-> t2, out |-> getLight(t2, s.user, id, ReadBack(fail))]

createLight(t, s, id, fail) ==
    IF fail = "first" THEN [table |-> t, out |-> Rejected]
    ELSE LET t2 == InsertRow(t, id, s)
         IN  [table |-> t2, out |-> getLight(t2, s.user, id, ReadBack(fail))]

\* UPDATE lights SET value = ?, date = ?, user = ? WHERE id = ? and user = ?
updateLight_SetsOwner(t, user, id, s, fail) ==
    IF fail = "first" THEN [table |-> t, out |-> Rejected]
    ELSE LET t2 == {IF r.id = id /\ r.user = user
                       THEN Row(r.id, s.date, s.value, s.user)
                       ELSE r : r \in t}
         IN  [table |-> t2, out |-> getLight(t2, s.user, id, ReadBack(fail))]

updateLight(t, user, id, s, fail) ==
    IF fail = "first" THEN [table |-> t, out |-> Rejected]
    ELSE LET t2 == UpdateByIdUser(t, s.value, s.date, id, user)
         IN  [table |-> t2, out |-> getLight(t2, s.user, id, ReadBack(fail))]

deleteLight(t, user, id, fail) ==
    IF fail # "none" THEN [table |-> t, out |-> Rejected]
    ELSE [table |-> DeleteByIdUser(t, id, user), out |-> Done]

\* ------------------------------------------------------------------------
\* dao-switches.js
\* ------------------------------------------------------------------------
listSwitches(t, user, fail) ==
    IF fail # "none" THEN Rejected ELSE Listed(SelectByUser(t, user))

getSwitch(t, user, id, fail) ==
    IF fail # "none" THEN Rejected ELSE FirstRow(SelectByIdUser(t, id, user))

createSwitch(t, s, id, fail) ==
    IF fail = "first" THEN [table |-> t, out |-> Rejected]
    ELSE LET t2 == InsertRow(t, id, s)
         IN  [table |-> t2, out |-> getSwitch(t2, s.user, id, ReadBack(fail))]

updateSwitch(t, user, id, s, fail) ==
    IF fail = "first" THEN [table |-> t, out |-> Rejected]
    ELSE LET t2 == UpdateByIdUser(t, s.value, s.date, id, user)
         IN  [table |-> t2, out |-> getSwitch(t2, s.user, id, ReadBack(fail))]

\* DELETE FROM switches WHERE id = ?  (the owner check left out)
deleteSwitch_AnyOwner(t, user, id, fail) ==
    IF fail # "none" THEN [table |-> t, out |-> Rejected]
    ELSE [table |-> {r \in t : r.id # id}, out |-> Done]

deleteSwitch(t, user, id, fail) ==
    IF fail # "none" THEN [table |-> t, out |-> Rejected]
    ELSE [table |-> DeleteByIdUser(t, id, user), out |-> Done]

\* ------------------------------------------------------------------------
\* dao-temperatures.js
\* ------------------------------------------------------------------------
listTemperatures(t, user, fail) ==
    IF fail # "none" THEN Rejected ELSE Listed(SelectByUser(t, user))

getTemperature(t, user, id, fail) ==
    IF fail # "none" THEN Rejected ELSE FirstRow(SelectByIdUser(t, id, user))

\* ... ORDER BY date LIMIT 1  (DESC left out: the oldest row)
getLastTemperature_Oldest(t, user, fail) ==
    IF fail # "none" THEN {Rejected}
    ELSE IF SelectByUser(t, user) = {} THEN {NotFound}
    ELSE {Found(r) : r \in {q \in SelectByUser(t, user) :
                               \A p \in SelectByUser(t, user) : q.date <= p.date}}

\* the outcomes getLastTemperature can resolve or reject with: rows of equal
\* date are returned in an order the statement does not fix
getLastTemperature(t, user, fail) ==
    IF fail # "none" THEN {Rejected}
    ELSE IF SelectByUser(t, user) = {} THEN {NotFound}
    ELSE {Found(r) : r \in NewestRows(SelectByUser(t, user))}

createTemperature(t, temperature, id, fail) ==
    IF fail = "first" THEN [table |-> t, out |-> Rejected]
    ELSE LET t2 == InsertRow(t, id, temperature)
         IN  [table |-> t2,
              out |-> getTemperature(t2, temperature.user, id, ReadBack(fail))]

\* resolve(null) without running the DELETE
deleteTemperature_Skipped(t, user, id, fail) ==
    IF fail # "none" THEN [table |-> t, out |-> Rejected]
    ELSE [table |-> t, out |-> Done]

deleteTemperature(t, user, id, fail) ==
    IF fail # "none" THEN [table |-> t, out |-> Rejected]
    ELSE [table |-> DeleteByIdUser(t, id, user), out |-> Done]

\* ------------------------------------------------------------------------
\* State
\* ------------------------------------------------------------------------
VARIABLES
    db,         \* the tables: db.lights, db.switches, db.temperatures
    session,    \* req.user of each session: a user id, or NoUser when anonymous
    authLog,    \* per session, its latest of: successful login, logout
    last        \* the latest call or request, with its outcome

vars == <<db, session, authLog, last>>

Sessions == {"a", "b"}

\* values a DAO caller stores
DaoValues == {Num(0), Num(1)}

EmptyDb == [lights |-> {}, switches |-> {}, temperatures |-> {}]

\* The three tables share no statement: a behaviour populates one of them.
OnlyTable(fam) == \A g \in Families \ {fam} : db[g] = {}
Active == {fam \in Families : OnlyTable(fam)}

NoArg == NoRow

\* what a request carries: the :id of its path, and the id, user and value
\* of its JSON body
Req(pid, bid, buser, bval) == [pid |-> pid, bid |-> bid, buser |-> buser, bval |-> bval]
NoReq == Req(Undef, Undef, NoUser, Undef)

Last(op, fam, user, id, s, out) ==
    [op |-> op, fam |-> fam, user |-> user, id |-> id, s |-> s, out |-> out,
     hit |-> FALSE, sess |-> "", req |-> NoReq, status |-> 0, body |-> "",
     calls |-> <<>>]

\* whether the table held a row with that id and owner when the call was made
Hit(fam, id, user) == SelectByIdUser(db[fam], id, user) # {}

NoLast == Last("", "", NoUser, NoId, NoArg, NoOutcome)

\* ------------------------------------------------------------------------
\* The exported DAO functions, by family
\* ------------------------------------------------------------------------
List(fam, t, user, fail) ==
    CASE fam = "lights" -> listLights(t, user, fail)
      [] fam = "switches" -> listSwitches(t, user, fail)
      [] fam = "temperatures" -> listTemperatures(t, user, fail)

Get(fam, t, user, id, fail) ==
    CASE fam = "lights" -> getLight(t, user, id, fail)
      [] fam = "switches" -> getSwitch(t, user, id, fail)
      [] fam = "temperatures" -> getTemperature(t, user, id, fail)

Create(fam, t, s, id, fail) ==
    CASE fam = "lights" -> createLight(t, s, id, fail)
      [] fam = "switches" -> createSwitch(t, s, id, fail)
      [] fam = "temperatures" -> createTemperature(t, s, id, fail)

Update(fam, t, user, id, s, fail) ==
    CASE fam = "lights" -> updateLight(t, user, id, s, fail)
      [] fam = "switches" -> updateSwitch(t, user, id, s, fail)

Delete(fam, t, user, id, fail) ==
    CASE fam = "lights" -> deleteLight(t, user, id, fail)
      [] fam = "switches" -> deleteSwitch(t, user, id, fail)
      [] fam = "temperatures" -> deleteTemperature(t, user, id, fail)

\* ------------------------------------------------------------------------
\* Calls of the exported DAO functions
\* ------------------------------------------------------------------------
\* a call whose first statement fails in the database rejects
CallRejected(op, fam, out) ==
    /\ out = Rejected
    /\ last' = Last(op, fam, NoUser, NoId, NoArg, Rejected)
    /\ UNCHANGED <<db, session, authLog>>

CallList ==
    \E fam \in Active :
        \/ CallRejected("list", fam, List(fam, db[fam], NoUser, "first"))
        \/ \E user \in Users :
              /\ last' = Last("list", fam, user, NoId, NoArg,
                              List(fam, db[fam], user, "none"))
              /\ UNCHANGED <<db, session, authLog>>

CallGet ==
    \E fam \in Active :
        \/ CallRejected("get", fam, Get(fam, db[fam], NoUser, NoId, "first"))
        \/ \E user \in Users, id \in Ids :
              /\ last' = Last("get", fam, user, id, NoArg,
                              Get(fam, db[fam], user, id, "none"))
              /\ UNCHANGED <<db, session, authLog>>

CallGetLast ==
    /\ "temperatures" \in Active
    /\ \/ \E out \in getLastTemperature(db.temperatures, NoUser, "first") :
             CallRejected("getLast", "temperatures", out)
       \/ \E user \in Users :
             \E out \in getLastTemperature(db.temperatures, user, "none") :
                 /\ last' = Last("getLast", "temperatures", user, NoId, NoArg, out)
                 /\ UNCHANGED <<db, session, authLog>>

CallCreate ==
    \E fam \in Active :
        \/ CallRejected("create", fam,
                        Create(fam, db[fam], NoArg, NoId, "first").out)
        \/ \E user \in Users, date \in Dates, value \in DaoValues,
              id \in lastID(db[fam]) :
              LET s == Row(NoId, date, value, user)
                  res == Create(fam, db[fam], s, id, "none")
              IN  /\ db' = [db EXCEPT ![fam] = res.table]
                  /\ last' = Last("create", fam, user, id, s, res.out)
                  /\ UNCHANGED <<session, authLog>>

CallUpdate ==
    \E fam \in {"lights", "switches"} \cap Active :
        \/ CallRejected("update", fam,
                        Update(fam, db[fam], NoUser, NoId, NoArg, "first").out)
        \/ \E user \in Users, id \in Ids, owner \in Users, date \in Dates,
              value \in DaoValues :
              LET s == Row(id, date, value, owner)
                  res == Update(fam, db[fam], user, id, s, "none")
              IN  /\ db' = [db EXCEPT ![fam] = res.table]
                  /\ last' = [Last("update", fam, user, id, s, res.out)
                                 EXCEPT !.hit = Hit(fam, id, user)]
                  /\ UNCHANGED <<session, authLog>>

CallDelete ==
    \E fam \in Active :
        \/ CallRejected("delete", fam,
                        Delete(fam, db[fam], NoUser, NoId, "first").out)
        \/ \E user \in Users, id \in Ids :
              LET res == Delete(fam, db[fam], user, id, "none")
              IN  /\ db' = [db EXCEPT ![fam] = res.table]
                  /\ last' = [Last("delete", fam, user, id, NoArg, res.out)
                                 EXCEPT !.hit = Hit(fam, id, user)]
                  /\ UNCHANGED <<session, authLog>>

InitDao ==
    /\ db = EmptyDb
    /\ session = [c \in Sessions |-> NoUser]
    /\ authLog = [c \in Sessions |-> "none"]
    /\ last = NoLast

NextDao ==
    \/ CallList
    \/ CallGet
    \/ CallGetLast
    \/ CallCreate
    \/ CallUpdate
    \/ CallDelete

SpecDao == InitDao /\ [][NextDao]_vars

\* ------------------------------------------------------------------------
\* The server: validation (express-validator) and conversions
\* ------------------------------------------------------------------------
FixedUser == 1      \* the user id the resource routes pass to the DAOs

NaN == 0 - 1

\* Number(req.params.id)
Number(x) == IF x.t \in {"number", "numstr"} THEN x.v ELSE NaN

\* a bound parameter compared with the INTEGER id column
DbInt(x) == IF x.t \in {"number", "numstr"} THEN x.v ELSE NoId

isInt(x) == x.t \in {"number", "numstr"}
isFloat(x) == x.t \in {"number", "number.5", "numstr"}
isBoolean(x) == \/ x.t = "boolean"
                \/ x.t \in {"number", "numstr"} /\ x.v \in {0, 1}

\* check(['id']).isInt(): every id the request carries, in its path or body
checkId(req) == /\ isInt(req.pid)
                /\ req.bid # Undef => isInt(req.bid)

\* req.body.id != Number(req.params.id)  (the loose comparison)
IdMismatch_Loose(req) == Number(req.bid) # Number(req.pid)

\* req.body.id !== Number(req.params.id)
IdMismatch(req) == req.bid # Num(Number(req.pid))

\* what the requests of the model carry
PathIds == {Str(i) : i \in Ids} \cup {Junk}
BodyIds == {Num(i) : i \in Ids} \cup {Str(1), Undef}
BodyUsers == Users
BodyValues == {Num(2), Bool(TRUE), Junk}

\* const isLoggedIn = (req, res, next) => ...   (no route installs it)
isLoggedIn(user) ==
    IF user # NoUser THEN [status |-> 0, body |-> "next"]
    ELSE [status |-> 401, body |-> "Not authorized"]

\* ------------------------------------------------------------------------
\* The resource routes: the tables after the request, and the response
\* ------------------------------------------------------------------------
Resp(d, status, body, out, calls) ==
    [db |-> d, status |-> status, body |-> body, out |-> out, calls |-> calls]

\* res.json(result) or res.status(404).json(result) of a read route
ReadResp(d, result, call) ==
    IF result.kind = "error" THEN Resp(d, 404, "json", result, <<call>>)
    ELSE Resp(d, 200, "json", result, <<call>>)

\* GET /api/temperatures
GetTemperaturesRoute(d, fail) ==
    LET temperatures == listTemperatures(d.temperatures, FixedUser, fail)
    IN  IF temperatures = Rejected
        THEN Resp(d, 500, "json(err)", Rejected, <<"listTemperatures">>)
        ELSE Resp(d, 200, "json", temperatures, <<"listTemperatures">>)

\* GET /api/temperatures/last, given what getLastTemperature(1) settled with
GetLastTemperatureRoute(d, result) ==
    IF result = Rejected
    THEN Resp(d, 500, "", Rejected, <<"getLastTemperature">>)
    ELSE ReadResp(d, result, "getLastTemperature")

\* GET /api/temperatures/:id
GetTemperatureRoute(d, req, fail) ==
    LET result == getTemperature(d.temperatures, FixedUser, DbInt(req.pid), fail)
    IN  IF result = Rejected
        THEN Resp(d, 500, "", Rejected, <<"getTemperature">>)
        ELSE ReadResp(d, result, "getTemperature")

\* POST /api/temperatures, given the clock and the id the INSERT assigns
PostTemperatureRoute(d, req, date, id, fail) ==
    IF ~isFloat(req.bval) THEN Resp(d, 422, "validation", NoOutcome, <<>>)
    ELSE LET temperature == Row(NoId, date, req.bval, FixedUser)
             res == createTemperature(d.temperatures, temperature, id, fail)
             d2 == [d EXCEPT !.temperatures = res.table]
         IN  IF res.out = Rejected
             THEN Resp(d2, 503, "Database error", Rejected, <<"createTemperature">>)
             ELSE Resp(d2, 200, "json", res.out, <<"createTemperature">>)

\* DELETE /api/temperatures/:id
DeleteTemperatureRoute(d, req, fail) ==
    LET res == deleteTemperature(d.temperatures, FixedUser, DbInt(req.pid), fail)
        d2 == [d EXCEPT !.temperatures = res.table]
    IN  IF res.out = Rejected
        THEN Resp(d2, 503, "Database error", Rejected, <<"deleteTemperature">>)
        ELSE Resp(d2, 200, "{}", res.out, <<"deleteTemperature">>)

\* GET /api/switches/:id answering a failure as the write routes do
GetSwitchRoute_503(d, req, fail) ==
    LET result == getSwitch(d.switches, FixedUser, DbInt(req.pid), fail)
    IN  IF result = Rejected
        THEN Resp(d, 503, "Database error", Rejected, <<"getSwitch">>)
        ELSE ReadResp(d, result, "getSwitch")

\* GET /api/switches/:id
GetSwitchRoute(d, req, fail) ==
    LET result == getSwitch(d.switches, FixedUser, DbInt(req.pid), fail)
    IN  IF result = Rejected
        THEN Resp(d, 500, "", Rejected, <<"getSwitch">>)
        ELSE ReadResp(d, result, "getSwitch")

\* where a PUT fails in the database: in its getX, or inside its updateX
PutFails == {"none", "get", "first"}
GetFail(fail) == IF fail = "get" THEN "first" ELSE "none"
UpdateFail(fail) == IF fail = "get" THEN "none" ELSE fail

\* PUT /api/switches/:id
PutSwitchRoute(d, req, date, fail) ==
    IF ~(checkId(req) /\ isBoolean(req.bval))
    THEN Resp(d, 422, "validation", NoOutcome, <<>>)
    ELSE IF IdMismatch(req)
    THEN Resp(d, 422, "URL and body id mismatch", NoOutcome, <<>>)
    ELSE LET s == getSwitch(d.switches, req.buser, DbInt(req.bid), GetFail(fail))
         IN  IF s = Rejected
             THEN Resp(d, 503, "Database error", Rejected, <<"getSwitch">>)
             ELSE IF s.kind = "error"
             THEN Resp(d, 404, "json", s, <<"getSwitch">>)
             ELSE LET s2 == [s.row EXCEPT !.date = date, !.value = req.bval]
                      res == updateSwitch(d.switches, req.buser, s2.id, s2,
                                          UpdateFail(fail))
                      d2 == [d EXCEPT !.switches = res.table]
                  IN  IF res.out = Rejected
                      THEN Resp(d2, 503, "Database error", Rejected,
                                <<"getSwitch", "updateSwitch">>)
                      ELSE Resp(d2, 200, "json", res.out,
                                <<"getSwitch", "updateSwitch">>)

\* GET /api/lights/:id
GetLightRoute(d, req, fail) ==
    LET result == getLight(d.lights, FixedUser, DbInt(req.pid), fail)
    IN  IF result = Rejected
        THEN Resp(d, 500, "", Rejected, <<"getLight">>)
        ELSE ReadResp(d, result, "getLight")

\* PUT /api/lights/:id
PutLightRoute(d, req, date, fail) ==
    IF ~(checkId(req) /\ isInt(req.bval))
    THEN Resp(d, 422, "validation", NoOutcome, <<>>)
    ELSE IF IdMismatch(req)
    THEN Resp(d, 422, "URL and body id mismatch", NoOutcome, <<>>)
    ELSE LET s == getLight(d.lights, req.buser, DbInt(req.bid), GetFail(fail))
         IN  IF s = Rejected
             THEN Resp(d, 503, "Database error", Rejected, <<"getLight">>)
             ELSE IF s.kind = "error"
             THEN Resp(d, 404, "json", s, <<"getLight">>)
             ELSE LET s2 == [s.row EXCEPT !.date = date, !.value = req.bval]
                      res == updateLight(d.lights, req.buser, s2.id, s2,
                                         UpdateFail(fail))
                      d2 == [d EXCEPT !.lights = res.table]
                  IN  IF res.out = Rejected
                      THEN Resp(d2, 503, "Database error", Rejected,
                                <<"getLight", "updateLight">>)
                      ELSE Resp(d2, 200, "json", res.out,
                                <<"getLight", "updateLight">>)

\* ------------------------------------------------------------------------
\* The session routes
\* ------------------------------------------------------------------------
\* what a login request carries: a username (a user's, or one nobody has)
\* and whether the password is that user's
Usernames == Users \cup {NoUser}

\* userDao.getUser(username, password): the user, or false
getUser(username, passwordOk) ==
    IF username \in Users /\ passwordOk THEN username ELSE NoUser

\* the LocalStrategy verify function: cb(null, user) or cb(null, false, message)
verify(username, passwordOk) ==
    LET user == getUser(username, passwordOk)
    IN  IF user = NoUser
        THEN [user |-> NoUser, info |-> "Incorrect username or password"]
        ELSE [user |-> user, info |-> ""]

\* POST /api/sessions logging in whoever the request names
PostSessions_NoVerify(user, username, passwordOk) ==
    LET v == verify(username, passwordOk)
    IN  IF v.user = NoUser
        THEN [user |-> username, status |-> 401, body |-> v.info]
        ELSE [user |-> v.user, status |-> 200, body |-> "user"]

\* POST /api/sessions: req.user after the request, and the response
PostSessions(user, username, passwordOk) ==
    LET v == verify(username, passwordOk)
    IN  IF v.user = NoUser
        THEN [user |-> user, status |-> 401, body |-> v.info]
        ELSE [user |-> v.user, status |-> 200, body |-> "user"]

\* GET /api/sessions/current
GetSessionsCurrent(user) ==
    IF user # NoUser THEN [user |-> user, status |-> 200, body |-> "user"]
    ELSE [user |-> user, status |-> 401, body |-> "Not authenticated"]

\* DELETE /api/sessions/current
DeleteSessionsCurrent(user) ==
    [user |-> NoUser, status |-> 200, body |-> "{}"]

\* ------------------------------------------------------------------------
\* Requests
\* ------------------------------------------------------------------------
Answer(op, fam, req, r) ==
    [Last(op, fam, NoUser, NoId, NoArg, r.out)
        EXCEPT !.req = req, !.status = r.status, !.body = r.body,
               !.calls = r.calls]

\* a request to a resource route: the session it comes from plays no part
Serve(op, fam, req, r) ==
    /\ db' = r.db
    /\ last' = Answer(op, fam, req, r)
    /\ UNCHANGED <<session, authLog>>

SessionAnswer(op, c, r, user) ==
    [Last(op, "", user, NoId, NoArg, NoOutcome)
        EXCEPT !.sess = c, !.status = r.status, !.body = r.body]

Login ==
    \E c \in Sessions, username \in Usernames, passwordOk \in BOOLEAN :
        LET r == PostSessions(session[c], username, passwordOk)
        IN  /\ session' = [session EXCEPT ![c] = r.user]
            /\ authLog' = [authLog EXCEPT
                              ![c] = IF r.status = 200 THEN "login" ELSE @]
            /\ last' = SessionAnswer("POST /api/sessions", c, r, username)
            /\ UNCHANGED db

Current ==
    \E c \in Sessions :
        LET r == GetSessionsCurrent(session[c])
        IN  /\ session' = [session EXCEPT ![c] = r.user]
            /\ last' = SessionAnswer("GET /api/sessions/current", c, r, session[c])
            /\ UNCHANGED <<db, authLog>>

Logout ==
    \E c \in Sessions :
        LET r == DeleteSessionsCurrent(session[c])
        IN  /\ session' = [session EXCEPT ![c] = r.user]
            /\ authLog' = [authLog EXCEPT ![c] = "logout"]
            /\ last' = SessionAnswer("DELETE /api/sessions/current", c, r, NoUser)
            /\ UNCHANGED db

GetTemperatures ==
    /\ "temperatures" \in Active
    /\ \E fail \in {"none", "first"} :
          Serve("GET /api/temperatures", "temperatures", NoReq,
                GetTemperaturesRoute(db, fail))

GetLastTemperature ==
    /\ "temperatures" \in Active
    /\ \E fail \in {"none", "first"} :
          \E result \in getLastTemperature(db.temperatures, FixedUser, fail) :
              Serve("GET /api/temperatures/last", "temperatures", NoReq,
                    GetLastTemperatureRoute(db, result))

GetTemperature ==
    /\ "temperatures" \in Active
    /\ \E pid \in PathIds, fail \in {"none", "first"} :
          LET req == Req(pid, Undef, NoUser, Undef)
          IN  Serve("GET /api/temperatures/:id", "temperatures", req,
                    GetTemperatureRoute(db, req, fail))

PostTemperature ==
    /\ "temperatures" \in Active
    /\ \E bval \in BodyValues :
          LET req == Req(Undef, Undef, NoUser, bval)
          IN  \/ /\ ~isFloat(bval)
                 /\ Serve("POST /api/temperatures", "temperatures", req,
                          PostTemperatureRoute(db, req, 0, NoId, "none"))
              \/ /\ isFloat(bval)
                 /\ \E date \in Dates, id \in lastID(db.temperatures),
                       fail \in Fails :
                       Serve("POST /api/temperatures", "temperatures", req,
                             PostTemperatureRoute(db, req, date, id, fail))

DeleteTemperature ==
    /\ "temperatures" \in Active
    /\ \E pid \in PathIds, fail \in {"none", "first"} :
          LET req == Req(pid, Undef, NoUser, Undef)
          IN  Serve("DELETE /api/temperatures/:id", "temperatures", req,
                    DeleteTemperatureRoute(db, req, fail))

GetSwitch ==
    /\ "switches" \in Active
    /\ \E pid \in PathIds, fail \in {"none", "first"} :
          LET req == Req(pid, Undef, NoUser, Undef)
          IN  Serve("GET /api/switches/:id", "switches", req,
                    GetSwitchRoute(db, req, fail))

PutSwitch ==
    /\ "switches" \in Active
    /\ \E pid \in PathIds, bid \in BodyIds, bval \in BodyValues :
          LET req0 == Req(pid, bid, NoUser, bval)
              r0 == PutSwitchRoute(db, req0, 0, "none")
          IN  IF r0.status = 422
              THEN Serve("PUT /api/switches/:id", "switches", req0, r0)
              ELSE \E buser \in BodyUsers, date \in Dates, fail \in PutFails :
                      LET req == Req(pid, bid, buser, bval)
                      IN  Serve("PUT /api/switches/:id", "switches", req,
                                PutSwitchRoute(db, req, date, fail))

GetLight ==
    /\ "lights" \in Active
    /\ \E pid \in PathIds, fail \in {"none", "first"} :
          LET req == Req(pid, Undef, NoUser, Undef)
          IN  Serve("GET /api/lights/:id", "lights", req,
                    GetLightRoute(db, req, fail))

PutLight ==
    /\ "lights" \in Active
    /\ \E pid \in PathIds, bid \in BodyIds, bval \in BodyValues :
          LET req0 == Req(pid, bid, NoUser, bval)
              r0 == PutLightRoute(db, req0, 0, "none")
          IN  IF r0.status = 422
              THEN Serve("PUT /api/lights/:id", "lights", req0, r0)
              ELSE \E buser \in BodyUsers, date \in Dates, fail \in PutFails :
                      LET req == Req(pid, bid, buser, bval)
                      IN  Serve("PUT /api/lights/:id", "lights", req,
                                PutLightRoute(db, req, date, fail))

\* ------------------------------------------------------------------------
\* The server starts on the database file as it is found
\* ------------------------------------------------------------------------
SeedValue == Num(0)

SeedTables ==
    {{Row(i, f[i].date, SeedValue, f[i].user) : i \in {j \in Ids : f[j].user # NoUser}} :
        f \in [Ids -> [user : Users \cup {NoUser}, date : Dates]]}

Init ==
    /\ \E fam \in Families, t \in SeedTables : db = [EmptyDb EXCEPT ![fam] = t]
    /\ session = [c \in Sessions |-> NoUser]
    /\ authLog = [c \in Sessions |-> "none"]
    /\ last = NoLast

Next ==
    \/ GetTemperatures
    \/ GetLastTemperature
    \/ GetTemperature
    \/ PostTemperature
    \/ DeleteTemperature
    \/ GetSwitch
    \/ PutSwitch
    \/ GetLight
    \/ PutLight

Spec == Init /\ [][Next]_vars

\* the session routes, which no table plays a part in
NextSession ==
    \/ Login
    \/ Current
    \/ Logout

SpecSession == InitDao /\ [][NextSession]_vars

\* ------------------------------------------------------------------------
\* Properties of the DAO modules (SpecDao)
\* ------------------------------------------------------------------------
OwnRows(fam, user) == SelectByUser(db[fam], user)
OtherRows(d, fam, user) == {r \in d[fam] : r.user # user}

\* C1 -- isolation on read: whatever the tables hold, reading a row's id as
\* any user other than its owner resolves to the not-found outcome, for
\* lights, switches and temperatures, and a get never resolves to a row of
\* another user than the one it was called with.
C1_IsolationOnRead ==
    /\ \A fam \in Families : \A r \in db[fam] : \A u2 \in Users \ {r.user} :
          Get(fam, db[fam], u2, r.id, "none") = NotFound
    /\ (last.op = "get" /\ last.out.kind = "row") => last.out.row.user = last.user

C1_Witness ==
    /\ last.op = "get"
    /\ last.out = NotFound
    /\ \E r \in db[last.fam] : r.id = last.id /\ r.user # last.user

\* C2 -- isolation on write: an update or delete called with user u leaves
\* the rows of every other owner exactly as they were.
C2_IsolationOnWrite ==
    [][last'.op \in {"update", "delete"} =>
          \A fam \in Families :
              OtherRows(db', fam, last'.user) = OtherRows(db, fam, last'.user)]_vars

C2_Witness ==
    /\ last.op = "delete"
    /\ last.out = Done
    /\ \E r \in db[last.fam] : r.id = last.id /\ r.user # last.user

\* C4 -- create/get round trip: a create that resolves yields the stored row,
\* whose id no other stored row has, and a get by the owner with that id then
\* returns the record that was created (same date, value and user).
C4_CreateGetRoundTrip ==
    (last.op = "create" /\ last.out.kind # "rejected") =>
        /\ last.out.kind = "row"
        /\ last.out.row \in db[last.fam]
        /\ \A q \in db[last.fam] : q.id = last.out.row.id => q = last.out.row
        /\ Get(last.fam, db[last.fam], last.s.user, last.out.row.id, "none")
             = Found(Row(last.out.row.id, last.s.date, last.s.value, last.s.user))

C4_Witness ==
    /\ last.op = "create"
    /\ last.out.kind = "row"
    /\ Cardinality(db[last.fam]) > 1

\* C5 -- an update on a row that exists with that id and owner sets its value
\* and date to those of s and keeps its id and user; and over any step the
\* rows keep their identifier and owner (no step changes the owner of an id).
C5_UpdateFrame ==
    [][/\ (last'.op = "update" /\ last'.out.kind # "rejected") =>
              /\ \A r \in db[last'.fam] :
                    (r.id = last'.id /\ r.user = last'.user) =>
                        Row(r.id, last'.s.date, last'.s.value, r.user) \in db'[last'.fam]
              /\ {<<r.id, r.user>> : r \in db'[last'.fam]}
                    = {<<r.id, r.user>> : r \in db[last'.fam]}
       /\ \A fam \in Families : \A r \in db[fam] : \A q \in db'[fam] :
              q.id = r.id => q.user = r.user]_vars

C5_Witness ==
    /\ last.op = "update"
    /\ last.hit
    /\ last.s.user # last.user
    /\ \E r \in db[last.fam] :
          r = Row(last.id, last.s.date, last.s.value, last.user)

\* C6 -- a delete whose statement runs resolves with null whether or not a row
\* with that id and owner existed, and a get by that user with that id then
\* finds nothing.
C6_DeleteThenGet ==
    (last.op = "delete" /\ last.out.kind # "rejected") =>
        /\ last.out = Done
        /\ Get(last.fam, db[last.fam], last.user, last.id, "none") = NotFound

C6_Witness ==
    /\ last.op = "delete"
    /\ last.hit
    /\ last.out = Done

C6_WitnessAbsent ==
    /\ last.op = "delete"
    /\ ~last.hit
    /\ last.out = Done

\* C7 -- getLastTemperature resolves to a row of that user that no other
\* temperature of that user is newer than, and to the not-found outcome
\* exactly when the user owns no temperature.
C7_LastTemperature ==
    (last.op = "getLast" /\ last.out.kind # "rejected") =>
        /\ last.out.kind \in {"row", "error"}
        /\ last.out.kind = "error" <=> OwnRows("temperatures", last.user) = {}
        /\ last.out.kind = "row" =>
              /\ last.out.row \in OwnRows("temperatures", last.user)
              /\ \A q \in OwnRows("temperatures", last.user) :
                    q.date <= last.out.row.date

C7_Witness ==
    /\ last.op = "getLast"
    /\ last.out.kind = "row"
    /\ \E q \in OwnRows("temperatures", last.user) : q.date < last.out.row.date

\* C11 -- the outcome of updateLight(user, id, s) and updateSwitch(user, id, s)
\* whose statements run is, for every user, id and s (s.user different from
\* user included), the not-found outcome or the row with identifier id whose
\* owner is the user parameter; it is never a row of another user.
C11_UpdateOutcomeOwner ==
    (last.op = "update" /\ last.out.kind # "rejected") =>
        \/ last.out = NotFound
        \/ /\ last.out.kind = "row"
           /\ last.out.row.id = last.id
           /\ last.out.row.user = last.user

\* ------------------------------------------------------------------------
\* Properties of the server (Spec, SpecSession)
\* ------------------------------------------------------------------------
ReadRoutes == {"GET /api/temperatures", "GET /api/temperatures/last",
               "GET /api/temperatures/:id", "GET /api/switches/:id",
               "GET /api/lights/:id"}
PutRoutes == {"PUT /api/switches/:id", "PUT /api/lights/:id"}
ResourceRoutes == ReadRoutes \cup PutRoutes
                    \cup {"POST /api/temperatures", "DELETE /api/temperatures/:id"}

Anonymous == \A c \in Sessions : session[c] = NoUser

\* C3 -- a request to a resource route from a session that is not
\* authenticated is answered 401 {error: 'Not authorized'} and reaches no DAO.
C3_Unauthorized ==
    (last.op \in ResourceRoutes /\ Anonymous) =>
        /\ last.status = isLoggedIn(NoUser).status
        /\ last.body = isLoggedIn(NoUser).body
        /\ last.calls = <<>>

\* C8 -- the session state machine: a session is authenticated exactly when
\* its latest successful login has no logout after it; a failed login changes
\* no session; a successful one makes the session that user's; logout answers
\* 200 and leaves the session anonymous; GET current answers 200 with the
\* user when authenticated and 401 otherwise.
C8_SessionMachine ==
    [][/\ \A c \in Sessions : session'[c] # NoUser <=> authLog'[c] = "login"
       /\ (last'.op = "POST /api/sessions" /\ last'.status # 200) =>
              /\ last'.status = 401
              /\ session' = session
       /\ (last'.op = "POST /api/sessions" /\ last'.status = 200) =>
              /\ last'.user \in Users
              /\ session' = [session EXCEPT ![last'.sess] = last'.user]
       /\ last'.op = "DELETE /api/sessions/current" =>
              /\ last'.status = 200
              /\ session' = [session EXCEPT ![last'.sess] = NoUser]
       /\ last'.op = "GET /api/sessions/current" =>
              /\ session' = session
              /\ last'.user = session[last'.sess]
              /\ IF session[last'.sess] # NoUser
                    THEN last'.status = 200 /\ last'.body = "user"
                    ELSE last'.status = 401]_vars

C8_Witness ==
    /\ last.op = "POST /api/sessions"
    /\ last.status = 401
    /\ session[last.sess] # NoUser
    /\ \E c \in Sessions : authLog[c] = "logout" /\ session[c] = NoUser

\* what the claim calls a field check, and an id mismatch, of a PUT request
FieldCheckFails(op, req) ==
    \/ ~isInt(req.pid)
    \/ req.bid # Undef /\ ~isInt(req.bid)
    \/ op = "PUT /api/switches/:id" /\ ~isBoolean(req.bval)
    \/ op = "PUT /api/lights/:id" /\ ~isInt(req.bval)

BodyPathDiffer(req) ==
    ~(req.bid.t = "number" /\ req.pid.t = "numstr" /\ req.bid.v = req.pid.v)

\* C9 -- validation precedes store access: a PUT whose body fails a field
\* check or whose body id is not the path's id, and a POST of a temperature
\* whose value is no float, are answered 422 with no DAO call and the tables
\* unchanged; the mismatch carries 'URL and body id mismatch'.
C9_ValidationFirst ==
    [][(\/ /\ last'.op \in PutRoutes
           /\ FieldCheckFails(last'.op, last'.req) \/ BodyPathDiffer(last'.req)
        \/ /\ last'.op = "POST /api/temperatures"
           /\ ~isFloat(last'.req.bval)) =>
          /\ last'.status = 422
          /\ last'.calls = <<>>
          /\ db' = db
          /\ (last'.op \in PutRoutes /\ ~FieldCheckFails(last'.op, last'.req)) =>
                last'.body = "URL and body id mismatch"]_vars

C9_Witness ==
    /\ last.op = "PUT /api/switches/:id"
    /\ last.status = 422
    /\ last.body = "URL and body id mismatch"
    /\ last.req.bid.t = "numstr"
    /\ \E r \in db.switches : r.id = last.req.bid.v

\* C10 as stated -- every read route answers a store failure with status 500
\* and an empty body.
C10_EmptyBodyEverywhere ==
    (last.op \in ReadRoutes /\ last.out = Rejected) =>
        last.status = 500 /\ last.body = ""

\* C10 -- every read route answers a store failure with status 500; the body
\* is empty on every one of them but GET /api/temperatures, which sends the
\* error as JSON.
C10_ReadFailure ==
    (last.op \in ReadRoutes /\ last.out = Rejected) =>
        /\ last.status = 500
        /\ last.body = IF last.op = "GET /api/temperatures" THEN "json(err)" ELSE ""

C10_Witness ==
    /\ last.op = "GET /api/switches/:id"
    /\ last.out = Rejected
    /\ last.status = 500
    /\ db.switches # {}

\* C12 -- with enforcement disabled, every resource route works as the fixed
\* user identity (1) whatever the path and the body of the request hold: the
\* row or rows a request obtains from the store belong to that identity, and
\* no request changes the rows of any other user.
C12_FixedIdentity ==
    [][last'.op \in ResourceRoutes =>
          /\ \A fam \in Families :
                OtherRows(db', fam, FixedUser) = OtherRows(db, fam, FixedUser)
          /\ last'.out.kind = "row" => last'.out.row.user = FixedUser
          /\ last'.out.kind = "rows" =>
                \A r \in last'.out.rows : r.user = FixedUser]_vars

====
